---- MODULE Spec2Model ----
(***************************************************************************)
(* Model of src/燃烧热的测定/燃烧热的测定.py: CombustionHeatDataProcessor  *)
(* and the script that runs it on the benzoic-acid and naphthalene curves. *)
(*                                                                         *)
(* Temperatures are integers in units of 0.1 degree C (20.0 C is 200).     *)
(* Floating-point values are modelled exactly: a float is a rational       *)
(* <<n, d>> (d > 0, lowest terms), and a value sympy returns from solve is *)
(* an element <<re, ir, rad>> = re + ir*sqrt(rad) of a quadratic field     *)
(* (rad < 0: a non-real complex number).  An unset attribute is <<>>.      *)
(*                                                                         *)
(* What the libraries do is modelled by their results: curve_fit returns   *)
(* the least-squares coefficients (its iteration from p0 is taken to       *)
(* converge, and rounding is left out), solve returns the exact roots, and *)
(* plot_results finds its output directory and draws without raising.      *)
(* An exception is the pair <<method, Python exception>>; none is caught   *)
(* anywhere in the file, so the first one ends the script.                 *)
(***************************************************************************)
EXTENDS Integers, Sequences, FiniteSets, TLC

\* Longest curve the model reads (the worksheet column is of any length).
MaxN == 24

Unset == <<>>

(***************************************************************************)
(* Exact rational arithmetic for the floats of the program.                *)
(***************************************************************************)
Abs(a) == IF a < 0 THEN -a ELSE a

RECURSIVE Gcd(_, _)
Gcd(a, b) == IF b = 0 THEN a ELSE Gcd(b, a % b)

\* The one element of a singleton: Only({e(v) : v \in {x}}) is e(x) with x
\* worked out once.
Only(S) == CHOOSE r \in S : TRUE

Rat(n, d) ==
    Only({<<(IF d < 0 THEN -n ELSE n) \div g, Abs(d) \div g>> :
          g \in {Gcd(Abs(n), Abs(d))}})

RInt(k) == <<k, 1>>
RZero == <<0, 1>>
RAdd(a, b) ==
    Only({Only({Rat(n, d) : n \in {x[1] * y[2] + y[1] * x[2]}, d \in {x[2] * y[2]}}) :
          x \in {a}, y \in {b}})
RNeg(a) == <<-a[1], a[2]>>
RSub(a, b) == RAdd(a, RNeg(b))
RMul(a, b) ==
    Only({IF x[1] = 0 \/ y[1] = 0 THEN RZero
          ELSE Only({<<(x[1] \div g1) * (y[1] \div g2), (x[2] \div g2) * (y[2] \div g1)>> :
                     g1 \in {Gcd(Abs(x[1]), y[2])}, g2 \in {Gcd(Abs(y[1]), x[2])}}) :
          x \in {a}, y \in {b}})
RDiv(a, b) == Only({RMul(a, Rat(y[2], y[1])) : y \in {b}})
RLess(a, b) == a[1] * b[2] < b[1] * a[2]

RECURSIVE RSum(_)
RSum(s) == IF s = <<>> THEN RZero ELSE RAdd(Head(s), RSum(Tail(s)))

(***************************************************************************)
(* Elements re + ir*sqrt(rad) of a quadratic field: the roots solve        *)
(* returns and what the tangents make of them.                             *)
(***************************************************************************)
RECURSIVE ISqrtFrom(_, _)
ISqrtFrom(n, s) == IF (s + 1) * (s + 1) > n THEN s ELSE ISqrtFrom(n, s + 1)
ISqrt(n) == ISqrtFrom(n, 0)
IsSquare(n) == n >= 0 /\ ISqrt(n) * ISqrt(n) = n

Num(re, ir, rad) ==
    Only({IF i = RZero \/ rad = 0 THEN <<r, RZero, 0>>
          ELSE IF IsSquare(rad) THEN <<RAdd(r, RMul(i, RInt(ISqrt(rad)))), RZero, 0>>
          ELSE <<r, i, rad>> :
          r \in {re}, i \in {ir}})
NReal(r) == <<r, RZero, 0>>
NRad(a, b) == IF a[3] # 0 THEN a[3] ELSE b[3]
IsReal(z) == z[3] >= 0
NAdd(a, b) ==
    Only({Num(RAdd(x[1], y[1]), RAdd(x[2], y[2]), NRad(x, y)) : x \in {a}, y \in {b}})
NSub(a, b) ==
    Only({Num(RSub(x[1], y[1]), RSub(x[2], y[2]), NRad(x, y)) : x \in {a}, y \in {b}})
NMul(a, b) ==
    Only({Num(RAdd(RMul(x[1], y[1]), RMul(RMul(x[2], y[2]), RInt(NRad(x, y)))),
              RAdd(RMul(x[1], y[2]), RMul(x[2], y[1])),
              NRad(x, y)) :
          x \in {a}, y \in {b}})

(***************************************************************************)
(* Python and numpy operations the methods use.                            *)
(***************************************************************************)
Min(a, b) == IF a < b THEN a ELSE b
Max(a, b) == IF a > b THEN a ELSE b

\* A slice bound as list.__getitem__ normalises it: negative counts from the
\* end, and both ends are clamped to the list.
SliceBound(i, n) == IF i < 0 THEN Max(i + n, 0) ELSE Min(i, n)

\* data[start:stop] on a 0-based list held as a 1-based sequence.
PySlice(data, start, stop) ==
    LET n == Len(data)
        lo == SliceBound(start, n)
        hi == SliceBound(stop, n)
    IN  IF hi <= lo THEN <<>> ELSE [k \in 1..(hi - lo) |-> data[lo + k]]

\* range(a, b) as a sequence.
PyRange(a, b) == IF b <= a THEN <<>> ELSE [k \in 1..(b - a) |-> a + k - 1]

\* data[i] with a 0-based, possibly negative index is defined.
InRange(data, i) == -Len(data) <= i /\ i < Len(data)
PyIndex(data, i) == IF i < 0 THEN data[Len(data) + i + 1] ELSE data[i + 1]

\* np.array([r, values]).T: the rows <<index, temperature>>.  numpy builds
\* the array only from two rows of the same length.
Homogeneous(r, values) == Len(r) = Len(values)
PointArray(r, values) == [k \in 1..Len(r) |-> <<r[k], values[k]>>]
Column(points, c) == [k \in 1..Len(points) |-> points[k][c]]

(***************************************************************************)
(* Polynomials: coeffs[i] is the coefficient of x^(i-1), as in             *)
(* polynomial_fit's enumerate(coeffs).                                     *)
(***************************************************************************)
ZeroPoly(n) == [i \in 1..n |-> RZero]
PolyAdd(p, q) == [i \in 1..Len(p) |-> RAdd(p[i], q[i])]
PolyScale(a, p) == [i \in 1..Len(p) |-> RMul(a, p[i])]
\* (x - alpha) * p, kept to the length of p.
MulLinear(alpha, p) ==
    [i \in 1..Len(p) |->
        RSub(IF i = 1 THEN RZero ELSE p[i - 1], RMul(alpha, p[i]))]

RECURSIVE Horner(_, _, _)
Horner(coeffs, x, i) ==
    IF i > Len(coeffs) THEN RZero
    ELSE RAdd(coeffs[i], RMul(x, Horner(coeffs, x, i + 1)))

\* polynomial_fit(x, *coeffs) at a rational x.
polynomial_fit(x, coeffs) == Horner(coeffs, x, 1)

RECURSIVE NHorner(_, _, _)
NHorner(coeffs, z, i) ==
    IF i > Len(coeffs) THEN NReal(RZero)
    ELSE NAdd(NReal(coeffs[i]), NMul(z, NHorner(coeffs, z, i + 1)))

\* polynomial_fit(x, *coeffs) at a value solve returned.
polynomial_fit_at(z, coeffs) == NHorner(coeffs, z, 1)

\* diff(sum(c * x**i), x): the coefficient of x^k becomes k times it, one
\* degree down.
Derivative(coeffs) ==
    [i \in 1..Len(coeffs) |->
        IF i = Len(coeffs) THEN RZero ELSE RMul(RInt(i), coeffs[i + 1])]

\* Highest power with a nonzero coefficient (0 for a constant, also for 0).
RECURSIVE DegreeFrom(_, _)
DegreeFrom(coeffs, i) ==
    IF i <= 1 THEN 0
    ELSE IF coeffs[i] # RZero THEN i - 1 ELSE DegreeFrom(coeffs, i - 1)
Degree(coeffs) == DegreeFrom(coeffs, Len(coeffs))

(***************************************************************************)
(* scipy.optimize.curve_fit on a polynomial model: the least-squares       *)
(* coefficients, computed exactly by projecting the data on the            *)
(* polynomials orthogonal over the sample indices (three-term recurrence). *)
(* Once the residual is zero every further coefficient is zero.            *)
(***************************************************************************)
ValuesAt(poly, xs) == [i \in 1..Len(xs) |-> polynomial_fit(RInt(xs[i]), poly)]
Dot(u, v) == RSum([i \in 1..Len(u) |-> RMul(u[i], v[i])])
AllZero(v) == \A i \in 1..Len(v) : v[i] = RZero

RECURSIVE Project(_, _, _, _, _, _, _, _)
Project(xs, k, n, Pk, Pprev, normPrev, res, acc) ==
    IF k = n \/ AllZero(res) THEN acc
    ELSE Only({Only({Only({Project(xs, k + 1, n, Pnext, Pk, nk, resNext, accNext) :
            Pnext \in {PolyAdd(MulLinear(alpha, Pk), PolyScale(RNeg(beta), Pprev))},
            resNext \in {[i \in 1..Len(xs) |-> RSub(res[i], RMul(ak, vk[i]))]},
            accNext \in {PolyAdd(acc, PolyScale(ak, Pk))}}) :
          ak \in {RDiv(Dot(res, vk), nk)},
          alpha \in {RDiv(Dot([i \in 1..Len(xs) |-> RMul(RInt(xs[i]), vk[i])], vk), nk)},
          beta \in {IF k = 0 THEN RZero ELSE RDiv(nk, normPrev)}}) :
        vk \in {ValuesAt(Pk, xs)}, nk \in {Dot(ValuesAt(Pk, xs), ValuesAt(Pk, xs))}})

LeastSquares(xs, ys, n) ==
    Project(xs, 0, n, [i \in 1..n |-> IF i = 1 THEN RInt(1) ELSE RZero],
            ZeroPoly(n), RInt(1), [i \in 1..Len(ys) |-> RInt(ys[i])], ZeroPoly(n))

\* curve_fit asking for more data points than parameters.
curve_fit_strict(xs, ys, n) ==
    IF Len(ys) = 0 THEN <<"ValueError">>
    ELSE IF n >= Len(ys) THEN <<"TypeError">>
    ELSE <<"ok", LeastSquares(xs, ys, n)>>

\* curve_fit(f, xdata, ydata, p0=[1]*n) refuses empty data (ValueError) and
\* more parameters than data points (TypeError); otherwise <<"ok", coeffs>>.
curve_fit(xs, ys, n) ==
    IF Len(ys) = 0 THEN <<"ValueError">>
    ELSE IF n > Len(ys) THEN <<"TypeError">>
    ELSE <<"ok", LeastSquares(xs, ys, n)>>

(***************************************************************************)
(* sympy.solve(expr, x) for a polynomial expr of degree at most 2 in x.    *)
(* A constant expression (zero or not) has no solution list entries; the   *)
(* roots come in sympy's canonical order: real roots ascending, of a       *)
(* complex pair the one with the negative imaginary part first.  No        *)
(* root is dropped for not being real: x carries no assumption.            *)
(***************************************************************************)
Lcm(a, b) == (a * b) \div Gcd(a, b)

solve(poly) ==
    LET d == Degree(poly)
        L == Lcm(poly[1][2], Lcm(poly[2][2], poly[3][2]))
        C == poly[1][1] * (L \div poly[1][2])
        B == poly[2][1] * (L \div poly[2][2])
        A == poly[3][1] * (L \div poly[3][2])
        disc == B * B - 4 * A * C
        re == Rat(-B, 2 * A)
        ir == Rat(1, 2 * Abs(A))
    IN  IF d = 0 THEN <<>>
        ELSE IF d = 1 THEN <<NReal(Rat(-C, B))>>
        ELSE IF disc = 0 THEN <<NReal(re)>>
        ELSE <<Num(re, RNeg(ir), disc), Num(re, ir, disc)>>

\* sympy's evalf of a root: the same number as a float.
evalf(z) == z

(***************************************************************************)
(* The curves the script reads from the worksheet (lines 194-198): any     *)
(* column of floats.  The model reads curves of these shapes, of every     *)
(* length up to MaxN.                                                      *)
(***************************************************************************)
\* Every sample the same temperature.
Flat(N) == [i \in 1..N |-> 200]
\* A pure linear rise of 0.1 degree per sample from 20.0.
Ramp(N) == [i \in 1..N |-> 200 + (i - 1)]
\* Samples 1..7 at 20.0, samples 8..N-6 rising linearly from 20.0 to 25.0,
\* samples N-5..N back at 20.0.
Step(N) ==
    [i \in 1..N |->
        IF i <= 7 \/ i > N - 6 THEN 200 ELSE 200 + (50 * (i - 8)) \div (N - 14)]
\* Samples 1..7 at t7, then a parabola with its minimum 20.0 at sample 11.
Parabola(N, t7) ==
    [i \in 1..N |-> IF i <= 7 THEN t7 ELSE 200 + (i - 11) * (i - 11)]
\* A burn curve: slow drift, a steady rise of 1.0 degree per sample, and a
\* rounded plateau after the flame is out.
Burn(N) ==
    [i \in 1..N |->
        IF i <= 7 THEN 200 + (i \div 2)
        ELSE IF i <= N - 6 THEN 203 + 10 * (i - 7)
        ELSE 203 + 10 * (N - 13) + <<4, 6, 7, 7, 6, 6>>[i - (N - 6)]]

Curves ==
    {Flat(N) : N \in 0..MaxN}
    \cup {Ramp(N) : N \in 13..MaxN}
    \cup {Step(N) : N \in {n \in 15..MaxN : 50 % (n - 14) = 0}}
    \cup {Parabola(N, t7) : N \in 21..MaxN, t7 \in {100, 200, 202}}
    \cup {Burn(N) : N \in 21..MaxN}

(***************************************************************************)
(* State.                                                                  *)
(***************************************************************************)
\* The two processors the script constructs, in this order (lines 200-201).
benzoic_acid == 1
naphthalene == 2
Procs == {benzoic_acid, naphthalene}
substance == <<"Benzoic acid", "Naphthalene">>
arc == <<"benzoic.png", "naphthalene.png">>

VARIABLES
    data,      \* data[p]: the temperature column read for processor p
    self,      \* self[p]: the attributes of processor p
    pc,        \* pc[p]: the method processor p runs next
    exc,       \* exc[p]: <<method, exception>> once a method of p has raised
    main,      \* where the script is
    rcParams,  \* matplotlib's process-wide configuration
    outdir,    \* the charts saved in the output directory, by file name
    stdout,    \* the lines printed
    zip,       \* the archive compress_results writes
    plt        \* pyplot's open figures, the current one last

vars == <<data, self, pc, exc, main, rcParams, outdir, stdout, zip, plt>>

NoObject ==
    [temperature_data |-> Unset, substance_name |-> "", arc_name |-> "",
     before_ignition |-> Unset, during_reaction |-> Unset,
     after_extinguish |-> Unset,
     point_before |-> Unset, point_during |-> Unset, point_after |-> Unset,
     point_positive7 |-> Unset, point_negative7 |-> Unset, point_mean |-> Unset,
     coeffs_before |-> Unset, coeffs_during |-> Unset, coeffs_after |-> Unset,
     slope_positive7 |-> Unset, slope_negative7 |-> Unset,
     tangent_positive7 |-> Unset, tangent_negative7 |-> Unset,
     T1 |-> Unset, T2 |-> Unset, delta_T |-> Unset]

DefaultRcParams ==
    [font_family |-> "sans-serif", font_size |-> 10,
     mathtext_fontset |-> "dejavusans", font_serif |-> "DejaVu Serif"]

Init ==
    /\ data \in [Procs -> Curves]
    /\ self = [p \in Procs |-> NoObject]
    /\ pc = [p \in Procs |-> "new"]
    /\ exc = [p \in Procs |-> Unset]
    /\ main = "benzoic_acid"
    /\ rcParams = DefaultRcParams
    /\ outdir = <<>>
    /\ stdout = <<>>
    /\ zip = Unset
    /\ plt = <<>>

\* The statement of __main__ that constructs processor p.
Statement(p) == IF p = benzoic_acid THEN "benzoic_acid" ELSE "naphthalene"
\* The statement after it.
NextStatement(p) == IF p = benzoic_acid THEN "naphthalene" ELSE "compress_results"

\* Processor p is inside `method`: called from its statement of the script,
\* from a later process_data() call ("again") or from its own thread
\* ("parallel").
Running(p, method) ==
    /\ main \in {Statement(p), "again", "parallel"}
    /\ pc[p] = method

\* A method returns and process_data calls the next one.
Goto(p, method) == pc' = [pc EXCEPT ![p] = method]

\* A method raises: nothing catches it, neither process_data, __init__ nor
\* the script, so the interpreter exits with the traceback; in a thread the
\* exception ends that thread only.
Raise(p, method, exception) ==
    /\ pc' = [pc EXCEPT ![p] = "raised"]
    /\ exc' = [exc EXCEPT ![p] = <<method, exception>>]
    /\ main' = IF main = Statement(p) THEN "traceback" ELSE main

(***************************************************************************)
(* CombustionHeatDataProcessor, one action per method, in the order        *)
(* __init__ and process_data call them.                                    *)
(***************************************************************************)
Len_(p) == Len(self[p].temperature_data)

\* __init__, lines 25-27: the three attributes; then setup_plot_config.
init(p) ==
    /\ Running(p, "new")
    /\ self' = [self EXCEPT ![p] =
                   [NoObject EXCEPT !.temperature_data = data[p],
                                    !.substance_name = substance[p],
                                    !.arc_name = arc[p]]]
    /\ Goto(p, "setup_plot_config")
    /\ UNCHANGED <<data, exc, main, rcParams, outdir, stdout, zip, plt>>

PlotConfig ==
    [font_family |-> "serif", font_size |-> 12,
     mathtext_fontset |-> "stix", font_serif |-> "Times New Roman"]

setup_plot_config(p) ==
    /\ Running(p, "setup_plot_config")
    /\ rcParams' = PlotConfig
    /\ Goto(p, "segment_data")
    /\ UNCHANGED <<data, self, exc, main, outdir, stdout, zip, plt>>

Before(d) == PySlice(d, 0, 7)
During(d) == PySlice(d, 7, -6)
After(d) == PySlice(d, -7, Len(d))

segment_data(p) ==
    /\ Running(p, "segment_data")
    /\ self' = [self EXCEPT
                   ![p].before_ignition = Before(self[p].temperature_data),
                   ![p].during_reaction = During(self[p].temperature_data),
                   ![p].after_extinguish = After(self[p].temperature_data)]
    /\ Goto(p, "create_point_data")
    /\ UNCHANGED <<data, exc, main, rcParams, outdir, stdout, zip, plt>>

BeforeIndex == PyRange(1, 8)
\* The During indices numbered from 7: one too low.
DuringIndex_shifted(N) == PyRange(7, N - 6)
DuringIndex(N) == PyRange(8, N - 5)
AfterIndex(N) == PyRange(N - 6, N + 1)

\* The array numpy makes of an index row and a value row.  Rows of different
\* lengths are a ValueError in numpy 1.24 and later; earlier versions warn
\* and keep the two rows as objects (Ragged).
Ragged == <<"object">>
Points(r, values) == IF Homogeneous(r, values) THEN PointArray(r, values) ELSE Ragged

create_point_data(p) ==
    /\ Running(p, "create_point_data")
    /\ LET o == self[p]
           N == Len_(p)
           ok == /\ Homogeneous(BeforeIndex, o.before_ignition)
                 /\ Homogeneous(DuringIndex(N), o.during_reaction)
                 /\ Homogeneous(AfterIndex(N), o.after_extinguish)
       IN  \/ /\ ~ok
              /\ Raise(p, "create_point_data", "ValueError")
              /\ UNCHANGED self
           \/ /\ self' = [self EXCEPT
                     ![p].point_before = Points(BeforeIndex, o.before_ignition),
                     ![p].point_during = Points(DuringIndex(N), o.during_reaction),
                     ![p].point_after = Points(AfterIndex(N), o.after_extinguish)]
              /\ Goto(p, "mark_special_points")
              /\ UNCHANGED <<exc, main>>
    /\ UNCHANGED <<data, rcParams, outdir, stdout, zip, plt>>

\* The mean point with the temperature of the first point for the mean.
Mean_first(a, b) == <<NReal(Rat(a[1] + b[1], 2)), RInt(a[2])>>

\* np.mean([a, b], axis=0) of two <<index, temperature>> points.
Mean(a, b) == <<NReal(Rat(a[1] + b[1], 2)), Rat(a[2] + b[2], 2)>>

\* mark_special_points averaging the mean point a previous run left on
\* the object instead of recomputing it from point_positive7.
mark_special_points_stale(p) ==
    /\ Running(p, "mark_special_points")
    /\ LET d == self[p].temperature_data
           N == Len_(p)
           positive7 == <<7, PyIndex(d, 6)>>
           negative7 == <<N - 6, PyIndex(d, -7)>>
           left == self[p].point_mean
       IN  IF InRange(d, 6) /\ InRange(d, -7)
           THEN /\ self' = [self EXCEPT ![p].point_positive7 = positive7,
                                        ![p].point_negative7 = negative7,
                                        ![p].point_mean =
                                            IF left = Unset
                                            THEN Mean(positive7, negative7)
                                            ELSE <<Mean(positive7, negative7)[1],
                                                   RDiv(RAdd(left[2], RInt(negative7[2])),
                                                        RInt(2))>>]
                /\ Goto(p, "fit_data")
                /\ UNCHANGED <<exc, main>>
           ELSE /\ Raise(p, "mark_special_points", "IndexError")
                /\ UNCHANGED self
    /\ UNCHANGED <<data, rcParams, outdir, stdout, zip, plt>>

mark_special_points(p) ==
    /\ Running(p, "mark_special_points")
    /\ LET d == self[p].temperature_data
           N == Len_(p)
           positive7 == <<7, PyIndex(d, 6)>>
           negative7 == <<N - 6, PyIndex(d, -7)>>
       IN  IF InRange(d, 6) /\ InRange(d, -7)
           THEN /\ self' = [self EXCEPT ![p].point_positive7 = positive7,
                                        ![p].point_negative7 = negative7,
                                        ![p].point_mean = Mean(positive7, negative7)]
                /\ Goto(p, "fit_data")
                /\ UNCHANGED <<exc, main>>
           ELSE /\ Raise(p, "mark_special_points", "IndexError")
                /\ UNCHANGED self
    /\ UNCHANGED <<data, rcParams, outdir, stdout, zip, plt>>

\* The three curve_fit calls of fit_data, with the lengths of p0.
FitBefore(o) == curve_fit(Column(o.point_before, 1), Column(o.point_before, 2), 4)
\* The During fit with a p0 of two parameters: a straight line.
FitDuring_line(o) == curve_fit(Column(o.point_during, 1), Column(o.point_during, 2), 2)
FitDuring(o) == curve_fit(Column(o.point_during, 1), Column(o.point_during, 2), 8)
FitAfter(o) == curve_fit(Column(o.point_after, 1), Column(o.point_after, 2), 4)

\* The calls run in this order and the first that raises ends fit_data, the
\* coefficients assigned before it staying on the object.
fit_data(p) ==
    /\ Running(p, "fit_data")
    /\ \E b \in {FitBefore(self[p])}, d \in {FitDuring(self[p])},
          a \in {FitAfter(self[p])} :
           IF b[1] # "ok"
           THEN Raise(p, "fit_data", b[1]) /\ UNCHANGED self
           ELSE IF d[1] # "ok"
           THEN /\ Raise(p, "fit_data", d[1])
                /\ self' = [self EXCEPT ![p].coeffs_before = b[2]]
           ELSE IF a[1] # "ok"
           THEN /\ Raise(p, "fit_data", a[1])
                /\ self' = [self EXCEPT ![p].coeffs_before = b[2],
                                        ![p].coeffs_during = d[2]]
           ELSE /\ self' = [self EXCEPT ![p].coeffs_before = b[2],
                                        ![p].coeffs_during = d[2],
                                        ![p].coeffs_after = a[2]]
                /\ Goto(p, "calculate_slopes")
                /\ UNCHANGED <<exc, main>>
    /\ UNCHANGED <<data, rcParams, outdir, stdout, zip, plt>>

\* The value of the fit itself where its derivative was meant.
SlopeAt_value(coeffs, at) == polynomial_fit(RInt(at), coeffs)

\* diff(fit, x).subs(x, at)
SlopeAt(coeffs, at) == polynomial_fit(RInt(at), Derivative(coeffs))

calculate_slopes(p) ==
    /\ Running(p, "calculate_slopes")
    /\ self' = [self EXCEPT
                   ![p].slope_positive7 = SlopeAt(self[p].coeffs_before, 7),
                   ![p].slope_negative7 = SlopeAt(self[p].coeffs_after, Len_(p) - 6)]
    /\ Goto(p, "calculate_tangent_lines")
    /\ UNCHANGED <<data, exc, main, rcParams, outdir, stdout, zip, plt>>

\* The two lambdas: they read the object's attributes when they are called.
Lambda == <<"lambda">>
tangent_positive7(o, x) ==
    NAdd(NMul(NReal(o.slope_positive7), NSub(x, NReal(RInt(7)))),
         NReal(RInt(o.point_positive7[2])))
\* The After tangent with the Before tangent's anchor index.
tangent_negative7_at7(o, x) ==
    NAdd(NMul(NReal(o.slope_negative7), NSub(x, NReal(RInt(7)))),
         NReal(RInt(o.point_negative7[2])))
tangent_negative7(o, x) ==
    NAdd(NMul(NReal(o.slope_negative7),
              NSub(x, NReal(RInt(Len(o.temperature_data) - 6)))),
         NReal(RInt(o.point_negative7[2])))

\* calculate_tangent_lines followed by plot_results, calculate_delta_T
\* left out.
calculate_tangent_lines_then_plot(p) ==
    /\ Running(p, "calculate_tangent_lines")
    /\ self' = [self EXCEPT ![p].tangent_positive7 = Lambda,
                            ![p].tangent_negative7 = Lambda]
    /\ Goto(p, "plot_results")
    /\ UNCHANGED <<data, exc, main, rcParams, outdir, stdout, zip, plt>>

calculate_tangent_lines(p) ==
    /\ Running(p, "calculate_tangent_lines")
    /\ self' = [self EXCEPT ![p].tangent_positive7 = Lambda,
                            ![p].tangent_negative7 = Lambda]
    /\ Goto(p, "calculate_delta_T")
    /\ UNCHANGED <<data, exc, main, rcParams, outdir, stdout, zip, plt>>

\* polynomial_fit(x, *coeffs_during) - point_mean[1] as a polynomial in x.
MeanEquation(o) ==
    [o.coeffs_during EXCEPT ![1] = RSub(o.coeffs_during[1], o.point_mean[2])]

calculate_delta_T(p) ==
    /\ Running(p, "calculate_delta_T")
    /\ Degree(MeanEquation(self[p])) <= 2
    /\ \E sol \in {solve(MeanEquation(self[p]))} :
           IF sol = <<>>
           THEN Raise(p, "calculate_delta_T", "IndexError") /\ UNCHANGED self
           ELSE LET o == self[p]
                    x == evalf(sol[1])
                    T1 == tangent_positive7(o, x)
                    T2 == tangent_negative7(o, x)
                IN
                /\ self' = [self EXCEPT ![p].point_mean = <<x, o.point_mean[2]>>,
                                        ![p].T1 = T1,
                                        ![p].T2 = T2,
                                        ![p].delta_T = NSub(T2, T1)]
                /\ Goto(p, "plot_results")
                /\ UNCHANGED <<exc, main>>
    /\ UNCHANGED <<data, rcParams, outdir, stdout, zip, plt>>

\* What plot_results draws: the title, the three scatters, the tangents'
\* end points and the mean point.
Chart(o) ==
    <<o.substance_name, o.before_ignition, o.during_reaction, o.after_extinguish,
      o.point_positive7, o.point_negative7, o.point_mean,
      tangent_positive7(o, o.point_mean[1]), tangent_negative7(o, o.point_mean[1])>>

\* outdir with the file `name` written or overwritten.
Saved(dir, name, chart) ==
    IF \E k \in 1..Len(dir) : dir[k][1] = name
    THEN [k \in 1..Len(dir) |-> IF dir[k][1] = name THEN <<name, chart>> ELSE dir[k]]
    ELSE Append(dir, <<name, chart>>)

\* pyplot keeps its figures in the module, not in the processor.
\* plt.figure() opens a figure and makes it the current one.
plt_figure(figs) == Append(figs, <<>>)
\* Every other pyplot call acts on the current figure, and opens one when
\* there is none.
gcf(figs) == IF figs = <<>> THEN plt_figure(figs) ELSE figs
\* The title, scatters, lines and marks, lines 108-150.
plt_draw(figs, chart) ==
    LET open == gcf(figs) IN [open EXCEPT ![Len(open)] = Append(@, chart)]
\* plt.close() closes the current figure, if any.
plt_close(figs) == IF figs = <<>> THEN figs ELSE SubSeq(figs, 1, Len(figs) - 1)

\* plot_results, as one step of a run no other run interleaves with.
plot_results(p) ==
    /\ Running(p, "plot_results")
    /\ \E drawn \in {plt_draw(plt_figure(plt), Chart(self[p]))} :
          /\ outdir' = Saved(outdir, self[p].arc_name, drawn[Len(drawn)])
          /\ plt' = plt_close(drawn)
    /\ Goto(p, "print_results")
    /\ UNCHANGED <<data, self, exc, main, rcParams, stdout, zip>>

\* plot_results statement by statement, as a thread executes it.
plot_results_figure(p) ==
    /\ Running(p, "plot_results")
    /\ plt' = plt_figure(plt)
    /\ Goto(p, "plot_results:draw")
    /\ UNCHANGED <<data, self, exc, main, rcParams, outdir, stdout, zip>>

plot_results_draw(p) ==
    /\ Running(p, "plot_results:draw")
    /\ plt' = plt_draw(plt, Chart(self[p]))
    /\ Goto(p, "plot_results:savefig")
    /\ UNCHANGED <<data, self, exc, main, rcParams, outdir, stdout, zip>>

plot_results_savefig(p) ==
    /\ Running(p, "plot_results:savefig")
    /\ plt' = gcf(plt)
    /\ outdir' = Saved(outdir, self[p].arc_name, gcf(plt)[Len(gcf(plt))])
    /\ Goto(p, "plot_results:close")
    /\ UNCHANGED <<data, self, exc, main, rcParams, stdout, zip>>

plot_results_close(p) ==
    /\ Running(p, "plot_results:close")
    /\ plt' = plt_close(plt)
    /\ Goto(p, "print_results")
    /\ UNCHANGED <<data, self, exc, main, rcParams, outdir, stdout, zip>>

\* print_results is the last call of process_data, itself the last of
\* __init__: the constructor returns and the script goes on.
print_results(p) ==
    /\ Running(p, "print_results")
    /\ stdout' = stdout \o <<<<"Mean point", self[p].point_mean>>,
                             <<"T_1", self[p].T1>>,
                             <<"T_2", self[p].T2>>,
                             <<"delta T", self[p].delta_T>>>>
    /\ pc' = [pc EXCEPT ![p] = "constructed"]
    /\ main' = IF main = Statement(p) THEN NextStatement(p) ELSE main
    /\ UNCHANGED <<data, self, exc, rcParams, outdir, zip, plt>>

\* benzoic_acid_data_processor.compress_results(), line 204.
compress_results ==
    /\ main = "compress_results"
    /\ zip' = [k \in 1..Len(outdir) |-> outdir[k][1]]
    /\ stdout' = Append(stdout, <<"compressed">>)
    /\ main' = "exit"
    /\ UNCHANGED <<data, self, pc, exc, rcParams, outdir, plt>>

Next ==
    \/ \E p \in Procs : init(p)
    \/ \E p \in Procs : setup_plot_config(p)
    \/ \E p \in Procs : segment_data(p)
    \/ \E p \in Procs : create_point_data(p)
    \/ \E p \in Procs : mark_special_points(p)
    \/ \E p \in Procs : fit_data(p)
    \/ \E p \in Procs : calculate_slopes(p)
    \/ \E p \in Procs : calculate_tangent_lines(p)
    \/ \E p \in Procs : calculate_delta_T(p)
    \/ \E p \in Procs : plot_results(p)
    \/ \E p \in Procs : print_results(p)
    \/ compress_results

Spec == Init /\ [][Next]_vars

(***************************************************************************)
(* process_data called again on a constructed processor.                   *)
(***************************************************************************)
\* How many process_data() calls after the script are followed.
MaxReruns == 1

\* The process_data runs that printed their results.
Runs == Cardinality({k \in 1..Len(stdout) : stdout[k][1] = "T_1"})

\* p.process_data(), lines 162-172, on an object the script constructed:
\* the nine methods run again on the attributes the first run left.
process_data(p) ==
    /\ main \in {"exit", "again"}
    /\ \A q \in Procs : pc[q] = "constructed"
    /\ Runs < Cardinality(Procs) + MaxReruns
    /\ main' = "again"
    /\ Goto(p, "segment_data")
    /\ UNCHANGED <<data, self, exc, rcParams, outdir, stdout, zip, plt>>

NextRerun ==
    \/ Next
    \/ \E p \in Procs : process_data(p)

SpecRerun == Init /\ [][NextRerun]_vars

(***************************************************************************)
(* The two processors of the script constructed in two threads of one      *)
(* interpreter: the threads interleave between any two statements, and a   *)
(* thread's methods are the same code, on the same rcParams and the same   *)
(* pyplot module.                                                          *)
(***************************************************************************)
\* The curves the threads are given: a ramp, a burn and a flat line, the
\* last one ending its thread with an exception.
ParCurves == {Ramp(MaxN), Burn(MaxN), Flat(MaxN)}

InitPar ==
    /\ data \in [Procs -> ParCurves]
    /\ self = [p \in Procs |-> NoObject]
    /\ pc = [p \in Procs |-> "new"]
    /\ exc = [p \in Procs |-> Unset]
    /\ main = "parallel"
    /\ rcParams = DefaultRcParams
    /\ outdir = <<>>
    /\ stdout = <<>>
    /\ zip = Unset
    /\ plt = <<>>

NextPar ==
    \/ \E p \in Procs : init(p)
    \/ \E p \in Procs : setup_plot_config(p)
    \/ \E p \in Procs : segment_data(p)
    \/ \E p \in Procs : create_point_data(p)
    \/ \E p \in Procs : mark_special_points(p)
    \/ \E p \in Procs : fit_data(p)
    \/ \E p \in Procs : calculate_slopes(p)
    \/ \E p \in Procs : calculate_tangent_lines(p)
    \/ \E p \in Procs : calculate_delta_T(p)
    \/ \E p \in Procs : plot_results_figure(p)
    \/ \E p \in Procs : plot_results_draw(p)
    \/ \E p \in Procs : plot_results_savefig(p)
    \/ \E p \in Procs : plot_results_close(p)
    \/ \E p \in Procs : print_results(p)

SpecPar == InitPar /\ [][NextPar]_vars

(***************************************************************************)
(* Properties.                                                             *)
(***************************************************************************)
N_(p) == Len(data[p])

RECURSIVE Pow(_, _)
Pow(x, k) == IF k = 0 THEN 1 ELSE x * Pow(x, k - 1)

\* The coefficients are the least-squares ones for the points: the residual
\* is orthogonal to every power of x below the number of parameters.
NormalEquations(coeffs, points) ==
    \A k \in 0..(Len(coeffs) - 1) :
        RSum([i \in 1..Len(points) |->
                RMul(RSub(polynomial_fit(RInt(points[i][1]), coeffs), RInt(points[i][2])),
                     RInt(Pow(points[i][1], k)))]) = RZero

\* Every fit on an object is the least-squares fit of its phase.
FitsAreLeastSquares ==
    \A p \in Procs :
        /\ self[p].coeffs_before # Unset =>
              NormalEquations(self[p].coeffs_before, self[p].point_before)
        /\ self[p].coeffs_during # Unset =>
              NormalEquations(self[p].coeffs_during, self[p].point_during)
        /\ self[p].coeffs_after # Unset =>
              NormalEquations(self[p].coeffs_after, self[p].point_after)

\* Processor p has built its three point arrays.
Segmented(p) == self[p].point_after # Unset

\* The equation calculate_delta_T solves is within what solve models, and
\* the point arrays of a curve of 7 or more samples are never ragged.
InDomain ==
    \A p \in Procs :
        /\ pc[p] = "calculate_delta_T" => Degree(MeanEquation(self[p])) <= 2
        /\ (Segmented(p) /\ N_(p) >= 7) =>
              /\ self[p].point_before # Ragged
              /\ self[p].point_during # Ragged
              /\ self[p].point_after # Ragged

\* The exception of p, if any, came out of `method`.
RaisedIn(p, method) == exc[p] # Unset /\ exc[p][1] = method

\* fit_data has run on p, to its end or to a raise.
PastFit(p) ==
    \/ pc[p] \in {"calculate_slopes", "calculate_tangent_lines", "calculate_delta_T",
                  "plot_results", "print_results", "constructed"}
    \/ RaisedIn(p, "fit_data")
    \/ RaisedIn(p, "calculate_delta_T")

\* calculate_delta_T has run on p to its end: p holds a Result.
HasResult(p) == self[p].delta_T # Unset

\* Nothing of a Result is on p, on the output directory or on stdout.
NoResult(p) ==
    /\ self[p].T1 = Unset /\ self[p].T2 = Unset /\ self[p].delta_T = Unset
    /\ \A k \in 1..Len(outdir) : outdir[k][1] # arc[p]

Indices(points) == {points[k][1] : k \in 1..Len(points)}

\* C1: for N >= 15 the point arrays are Before = samples 1..7, During =
\* samples 8..N-6 and After = samples N-6..N, each index row as long as its
\* temperature row, and N-6 is the one sample two phases share.
C1_Segmentation ==
    \A p \in Procs :
        (Segmented(p) /\ N_(p) >= 15) =>
            LET o == self[p]
                N == N_(p)
            IN  /\ o.point_before = [k \in 1..7 |-> <<k, data[p][k]>>]
                /\ o.point_during = [k \in 1..(N - 13) |-> <<7 + k, data[p][7 + k]>>]
                /\ o.point_after = [k \in 1..7 |-> <<N - 7 + k, data[p][N - 7 + k]>>]
                /\ Len(o.before_ignition) = Len(BeforeIndex)
                /\ Len(o.during_reaction) = Len(DuringIndex(N))
                /\ Len(o.after_extinguish) = Len(AfterIndex(N))
                /\ (Indices(o.point_before) \cap Indices(o.point_during))
                     \cup (Indices(o.point_before) \cap Indices(o.point_after))
                     \cup (Indices(o.point_during) \cap Indices(o.point_after))
                   = {N - 6}

\* A curve of exactly 15 samples segmented: During is samples 8 and 9.
C1_Witness ==
    \E p \in Procs :
        /\ Segmented(p) /\ N_(p) = 15
        /\ Indices(self[p].point_during) = {8, 9}
        /\ Indices(self[p].point_after) = 9..15

\* C2 as claimed: a curve of fewer than 15 samples is refused while it is
\* segmented, before any fit is attempted, and leaves no Result; a curve of
\* 15 or more is never refused there.
C2_InsufficientSamples ==
    \A p \in Procs :
        /\ N_(p) < 15 =>
              /\ pc[p] \in {"new", "setup_plot_config", "segment_data",
                            "create_point_data", "mark_special_points", "raised"}
              /\ pc[p] = "raised" =>
                    /\ exc[p][1] \in {"segment_data", "create_point_data",
                                      "mark_special_points"}
                    /\ self[p].coeffs_before = Unset
                    /\ NoResult(p)
        /\ N_(p) >= 15 =>
              ~(\/ RaisedIn(p, "segment_data") \/ RaisedIn(p, "create_point_data")
                \/ RaisedIn(p, "mark_special_points"))

\* A phase with no more samples than the degree of its fit (3, 7, 3).
Degenerate(p) ==
    \/ 3 >= Len(self[p].point_before)
    \/ 7 >= Len(self[p].point_during)
    \/ 3 >= Len(self[p].point_after)

\* C3: fit_data raises exactly when the degree of a phase's polynomial is at
\* least the number of its samples, no Result of any kind then exists, and a
\* curve of exactly 15 samples is such a curve (During: 2 samples, degree 7).
C3_FitDegenerate ==
    \A p \in Procs :
        PastFit(p) =>
            /\ Degenerate(p) <=> RaisedIn(p, "fit_data")
            /\ RaisedIn(p, "fit_data") =>
                  /\ exc[p][2] \in {"TypeError", "ValueError"}
                  /\ NoResult(p)
                  /\ pc[p] = "raised"
            /\ N_(p) = 15 =>
                  /\ Len(self[p].point_during) = 2
                  /\ RaisedIn(p, "fit_data")

\* A curve of exactly 15 samples on which fit_data has raised.
C3_Witness ==
    \E p \in Procs : N_(p) = 15 /\ RaisedIn(p, "fit_data") /\ Segmented(p)

\* C4 as claimed: During has at least 8 samples exactly when N >= 14, and
\* every curve of 15 or more samples is fitted without a degenerate phase.
C4_FittableFrom15 ==
    \A p \in Procs :
        /\ (Segmented(p) /\ N_(p) >= 7) =>
              (Len(self[p].point_during) >= 8 <=> N_(p) >= 14)
        /\ (PastFit(p) /\ N_(p) >= 15) => ~RaisedIn(p, "fit_data")

\* C4 amended: During has at least 8 samples exactly when N >= 21 (it has
\* N-13 samples), Before and After always have 7, so the curves fitted
\* without a degenerate phase are those of 21 or more samples; those of 15
\* to 20 pass segmentation and fit_data raises on them.
C4_FittableFrom21 ==
    \A p \in Procs :
        /\ (Segmented(p) /\ N_(p) >= 13) =>
              /\ Len(self[p].point_before) = 7
              /\ Len(self[p].point_after) = 7
              /\ Len(self[p].point_during) = N_(p) - 13
              /\ Len(self[p].point_during) >= 8 <=> N_(p) >= 21
        /\ (PastFit(p) /\ N_(p) >= 15) =>
              /\ N_(p) >= 21 <=> ~RaisedIn(p, "fit_data")
              /\ N_(p) >= 21 => self[p].coeffs_after # Unset

\* One curve of 20 samples refused by fit_data and one of 21 fitted.
C4_Witness ==
    /\ N_(benzoic_acid) = 21 /\ pc[benzoic_acid] = "constructed"
    /\ N_(naphthalene) = 20 /\ RaisedIn(naphthalene, "fit_data")

\* c1 + 2*c2*at + 3*c3*at^2: the derivative of a cubic, coefficient by
\* coefficient.
CubicSlope(c, at) ==
    RAdd(c[2], RAdd(RMul(RInt(2 * at), c[3]), RMul(RInt(3 * at * at), c[4])))

\* slope * (m - index) + temperature
PointSlope(slope, m, index, temperature) ==
    NAdd(NMul(NReal(slope), NSub(m, NReal(RInt(index)))), NReal(RInt(temperature)))

\* C5: a Result has T1 = slopeBefore*(m - 7) + temperature[7], T2 =
\* slopeAfter*(m - (N-6)) + temperature[N-6] and deltaT = T2 - T1, m the
\* solved index and the slopes the derivatives of the Before fit at 7 and of
\* the After fit at N-6; each tangent passes through its boundary sample.
C5_TangentValues ==
    \A p \in Procs :
        HasResult(p) =>
            LET o == self[p]
                N == N_(p)
                m == o.point_mean[1]
                slopeBefore == CubicSlope(o.coeffs_before, 7)
                slopeAfter == CubicSlope(o.coeffs_after, N - 6)
            IN  /\ o.T1 = PointSlope(slopeBefore, m, 7, data[p][7])
                /\ o.T2 = PointSlope(slopeAfter, m, N - 6, data[p][N - 6])
                /\ o.delta_T = NSub(o.T2, o.T1)
                /\ tangent_positive7(o, NReal(RInt(7))) = NReal(RInt(data[p][7]))
                /\ tangent_negative7(o, NReal(RInt(N - 6))) = NReal(RInt(data[p][N - 6]))

\* A Result on a burn curve, both slopes nonzero and T2 above T1.
C5_Witness ==
    \E p \in Procs :
        /\ HasResult(p) /\ data[p] = Burn(Len(data[p]))
        /\ self[p].slope_positive7 # RZero /\ self[p].slope_negative7 # RZero
        /\ IsReal(self[p].delta_T) /\ RLess(RZero, self[p].delta_T[1])

\* (temperature[7] + temperature[N-6]) / 2
Target(p) == Rat(data[p][7] + data[p][N_(p) - 6], 2)

C7_BatchIsolation ==
    main \in {"traceback", "exit"} =>
        \A p \in Procs : data[p] = Ramp(21) => HasResult(p)

IsFlat(d) == \A i \in 1..Len(d) : d[i] = d[1]

IsStep(p) == N_(p) >= 21 /\ 50 % (N_(p) - 14) = 0 /\ data[p] = Step(N_(p))

Result(p) == <<self[p].point_mean[1], self[p].T1, self[p].T2, self[p].delta_T>>

\* calculate_delta_T has returned from p's current run.
Computed(p) == pc[p] \in {"plot_results", "print_results", "constructed"}

\* The chart file p's plot_results wrote, <<>> when there is none.
FileOf(p) ==
    IF \E k \in 1..Len(outdir) : outdir[k][1] = arc[p]
    THEN (CHOOSE f \in {outdir[k] : k \in 1..Len(outdir)} : f[1] = arc[p])[2]
    ELSE <<>>

\* The Result of p's previous run, while a later run has not yet computed
\* its own: the midpoint index as the chart recorded it, the three
\* temperatures as they still stand on the object.
PreviousResult(p) ==
    <<FileOf(p)[1][7][1], self[p].T1, self[p].T2, self[p].delta_T>>

\* C11: the same curve gives the same Result twice: two processors built
\* on equal curves carry equal Results, and a process_data() called again on
\* a processor that has a Result ends calculate_delta_T with that very
\* Result, never with an exception.
C11_SameResultTwice ==
    /\ [](\A p, q \in Procs :
            (data[p] = data[q] /\ Computed(p) /\ Computed(q))
                => Result(p) = Result(q))
    /\ [][\A p \in Procs :
            (pc[p] = "calculate_delta_T" /\ HasResult(p)) =>
                /\ pc'[p] \in {"calculate_delta_T", "plot_results"}
                /\ pc'[p] = "plot_results" => Result(p)' = PreviousResult(p)]_vars

\* A second process_data() has computed its Result on one of two processors
\* built on the same curve, a curve with a real burn.
C11_Witness ==
    /\ main = "again"
    /\ data[benzoic_acid] = data[naphthalene]
    /\ data[benzoic_acid] = Burn(21)
    /\ \E p \in Procs : pc[p] = "plot_results"


\* p's plot_results has written its file.
ChartSaved(p) ==
    pc[p] \in {"plot_results:close", "print_results", "constructed"}

\* The file of a processor that ran with no other run interleaved holds one
\* figure with its own chart, drawn from its own attributes.
SequentialChart ==
    \A p \in Procs : ChartSaved(p) => FileOf(p) = <<Chart(self[p])>>

\* Equal curves give equal Results, whatever the other thread did.
ParallelResult ==
    \A p, q \in Procs :
        (data[p] = data[q] /\ Computed(p) /\ Computed(q)) => Result(p) = Result(q)

\* C12 as claimed: under every interleaving of two processors' steps each
\* processor's saved chart is the chart its run alone saves, one figure
\* holding its own drawing, and its Result is the Result of its curve.
C12_ParallelCharts ==
    /\ \A p \in Procs : ChartSaved(p) => FileOf(p) = <<Chart(self[p])>>
    /\ ParallelResult


\* The methods from the construction of a processor to the one that makes
\* delta_T available.
CoreMethods ==
    {"new", "setup_plot_config", "segment_data", "create_point_data",
     "mark_special_points", "fit_data", "calculate_slopes",
     "calculate_tangent_lines", "calculate_delta_T"}

\* C13 as claimed: no step of a processor from its construction to the
\* availability of delta_T changes the plotting configuration, the output
\* directory, the printed output or the figures.
C13_NoSideEffect ==
    [][\A p \in Procs :
          (pc[p] \in CoreMethods /\ pc'[p] # pc[p])
              => UNCHANGED <<rcParams, outdir, stdout, plt>>]_vars


\* What a run has produced so far on p, step by step.
HasSegments(p) == self[p].after_extinguish # Unset
HasPoints(p) == self[p].point_before # Unset
HasTarget(p) == self[p].point_mean # Unset
HasFit(p) == self[p].coeffs_before # Unset
HasSlopes(p) ==
    self[p].slope_positive7 # Unset /\ self[p].slope_negative7 # Unset
HasTangents(p) ==
    self[p].tangent_positive7 # Unset /\ self[p].tangent_negative7 # Unset
HasChart(p) == FileOf(p) # <<>>
\* The script constructs benzoic_acid first, and each run prints four lines.
HasPrinted(p) == Len(stdout) >= 4 * p

\* The products in `steps` appear in that order: a later one is present only
\* when every earlier one is.
InOrder(steps) ==
    \A i, j \in 1..Len(steps) : (i < j /\ steps[j]) => steps[i]

\* A method is entered only with the attributes it reads already assigned.
ReadsProduced(p) ==
    /\ pc[p] = "create_point_data" => HasSegments(p)
    /\ pc[p] = "fit_data" => HasPoints(p)
    /\ pc[p] = "calculate_slopes" =>
          self[p].coeffs_before # Unset /\ self[p].coeffs_after # Unset
    /\ pc[p] = "calculate_delta_T" =>
          /\ self[p].coeffs_during # Unset
          /\ HasTarget(p) /\ HasSlopes(p) /\ HasTangents(p)
          /\ self[p].point_positive7 # Unset /\ self[p].point_negative7 # Unset
    /\ pc[p] \in {"plot_results", "print_results"} =>
          /\ HasResult(p) /\ HasTarget(p) /\ HasSlopes(p) /\ HasPoints(p)
          /\ self[p].T1 # Unset /\ self[p].T2 # Unset

\* C14 as claimed: on every non-empty curve the products appear in the order
\* segments, fits, slopes, tangents, midpoint target temperature, Result,
\* chart, printed lines; no method is entered before what it reads exists.
C14_ClaimedOrder ==
    \A p \in Procs :
        N_(p) > 0 =>
            /\ InOrder(<<HasSegments(p), HasFit(p), HasSlopes(p), HasTangents(p),
                         HasTarget(p), HasResult(p), HasChart(p), HasPrinted(p)>>)
            /\ ReadsProduced(p)

\* C14 amended: on every non-empty curve the products appear in the order
\* segments, point arrays, midpoint target temperature (with the two
\* special points), fits, slopes, tangents, Result (midpoint index and both
\* tangent values), chart, printed lines; no method is entered before what
\* it reads exists, so the chart and the printed lines come only after
\* delta_T.
C14_CodeOrder ==
    \A p \in Procs :
        N_(p) > 0 =>
            /\ InOrder(<<HasSegments(p), HasPoints(p), HasTarget(p), HasFit(p),
                         HasSlopes(p), HasTangents(p), HasResult(p), HasChart(p),
                         HasPrinted(p)>>)
            /\ ReadsProduced(p)

\* The fits of a burn curve are about to start with the midpoint target
\* already computed, the other processor having run to its printed Result.
C14_Witness ==
    /\ pc[naphthalene] = "fit_data"
    /\ data[naphthalene] = Burn(MaxN)
    /\ HasTarget(naphthalene) /\ ~HasFit(naphthalene)
    /\ HasResult(benzoic_acid) /\ HasChart(benzoic_acid) /\ HasPrinted(benzoic_acid)

====
